---- MODULE Spec2Model ----
(***************************************************************************)
(* Model of the recording and transcription coordinator of Shuddhalekhan:  *)
(* SpeechToTextApp (app/main.py), AudioRecorder (app/recorder.py),         *)
(* SpeechToTextModel (app/model.py) and the parts of TrayApp and           *)
(* TextInjector they call.                                                 *)
(*                                                                         *)
(* The code takes no lock anywhere.  Every read or write of a field that   *)
(* another thread can read or write is a step of its own; statements that  *)
(* touch only the locals of a call are folded into the step that follows   *)
(* or precedes them.  The label of a caller's position is the line of      *)
(* the statement it executes next.                                         *)
(***************************************************************************)
EXTENDS Integers, Sequences, FiniteSets, TLC

\* ---------------------------------------------------------------- constants
SAMPLE_RATE == 16000
CHUNK_SIZE == 1024

\* ------------------------------------------------------------------- bounds
\* coordinator calls one thread issues
MaxCalls == 2
\* capture threads (recording periods) the recorder starts
MaxSessions == 2
\* frames the driver callbacks put on one queue; the first queue of a run
\* that follows a transcription takes as many as the duration check asks for
MaxFrames == 2

\* load threads that calls of load_model_async create
MaxLoads == 2
\* samples of the longest clip handed to the duration check on its own
MaxSamples == 5000

\* the threads that call the coordinator: the hotkey listener and the tray menu
Callers == {1, 2}
Sessions == 1..MaxSessions
NoStream == 0
Loads == 1..MaxLoads
NoLoad == 0
NoAudio == <<>>

\* texts the recognition pipeline may return, as sequences of characters
Texts == { <<>>, <<" ">>, <<"h", "i">>, <<" ", "h", "i", " ">> }
NoText == <<"None">>

VARIABLES
    \* SpeechToTextApp
    is_recording, model_loaded,
    \* TrayApp
    tray_is_recording, icon_title,
    \* AudioRecorder
    rec_is_recording, audio_queue, stream, recording_thread,
    \* SpeechToTextModel
    pipeline, gate_loaded, load_thread, lpc,
    \* the monitor thread of run()
    monitor,
    \* the threads calling the coordinator
    pc, op, add_newline, audio_data, waitq, obs,
    \* capture threads, their streams and the driver callbacks
    cpc, sstate, cbpc, period, nsess,
    \* the queue object in self.audio_queue, and what was put on it and on
    \* the earlier queues that a stop_recording is still draining
    qgen, pushed,
    \* what the run is bounded by: calls per thread, capture threads, frames
    \* per queue
    calls_left, bound

coordVars == <<is_recording, model_loaded, tray_is_recording, icon_title>>
recVars == <<rec_is_recording, audio_queue, stream, recording_thread>>
modelVars == <<pipeline, gate_loaded, load_thread, lpc, monitor>>
callerVars == <<pc, op, add_newline, audio_data, waitq, obs, calls_left>>
captureVars == <<cpc, sstate, cbpc, period, nsess, bound>>
queueVars == <<qgen, pushed>>
vars == <<coordVars, recVars, modelVars, callerVars, captureVars, queueVars>>

\* what one call did, as its caller could observe it
\* (ui: the set_recording_state calls; engine: how the pipeline call ended;
\* inject: the text handed to TextInjector.inject and whether it returned
\* True; enter: the presses of Key.enter; stopped: the queue that was current
\* when the call cleared the recorder's flag; text: what transcribe returned;
\* calls: the calls made on the text injector, in their order)
NoObs == [ui |-> <<>>, outcome |-> "none", engine |-> "none", inject |-> NoText,
          injected |-> FALSE, enter |-> 0, stopped |-> 0, text |-> NoText,
          calls |-> <<>>]

\* the state after SpeechToTextApp.__init__, for a run of at most c1 and c2
\* calls by the two threads, ns capture threads, nf frames per queue and nl
\* load threads
StartWith(c1, c2, ns, nf, nl) ==
    /\ is_recording = FALSE
    /\ model_loaded = FALSE
    /\ tray_is_recording = FALSE
    /\ icon_title = "loading"
    /\ rec_is_recording = FALSE
    /\ audio_queue = <<>>
    /\ stream = NoStream
    /\ recording_thread = NoStream
    /\ pipeline = FALSE
    /\ gate_loaded = FALSE
    /\ load_thread = NoLoad
    /\ lpc = [l \in Loads |-> "none"]
    /\ monitor = "none"
    /\ pc = [t \in Callers |-> "idle"]
    /\ op = [t \in Callers |-> "none"]
    /\ add_newline = [t \in Callers |-> FALSE]
    /\ audio_data = [t \in Callers |-> <<>>]
    /\ waitq = [t \in Callers |-> 0]
    /\ obs = [t \in Callers |-> NoObs]
    /\ cpc = [s \in Sessions |-> "none"]
    /\ sstate = [s \in Sessions |-> "unopened"]
    /\ cbpc = [s \in Sessions |-> "idle"]
    /\ period = [s \in Sessions |-> 0]
    /\ nsess = 0
    /\ qgen = 0
    /\ pushed = <<>>
    /\ calls_left = [t \in Callers |-> IF t = 1 THEN c1 ELSE c2]
    /\ bound = [sessions |-> ns, frames |-> nf, loads |-> nl]

\* run() calls load_model_async once, main.py:183
Start(c1, c2, ns, nf) == StartWith(c1, c2, ns, nf, 1)

\* the second thread issues one call fewer than the first
Init == Start(MaxCalls, MaxCalls - 1, MaxSessions, MaxFrames)

\* ------------------------------------------------------------ pure helpers
IsSpace(c) == c = " "

RECURSIVE LStrip(_)
LStrip(s) == IF s # <<>> /\ IsSpace(Head(s)) THEN LStrip(Tail(s)) ELSE s

RECURSIVE RStrip(_)
RStrip(s) ==
    IF s # <<>> /\ IsSpace(s[Len(s)]) THEN RStrip(SubSeq(s, 1, Len(s) - 1)) ELSE s

\* str.strip()
Strip(s) == RStrip(LStrip(s))

\* a test of the text that does not strip it
TextOkUnstripped(text) == text # NoText /\ text # <<>>

\* main.py:116, `text and text.strip()`
TextOk(text) == text # NoText /\ text # <<>> /\ Strip(text) # <<>>

\* len() of the array np.concatenate builds from the drained frames: the
\* sum of their lengths (a frame's fourth component)
RECURSIVE NumSamples(_)
NumSamples(frames) ==
    IF frames = <<>> THEN 0 ELSE Head(frames)[4] + NumSamples(Tail(frames))

\* a duration check that also turns away a clip of exactly 0.3 s
TooShortInclusive(frames) == 10 * NumSamples(frames) <= 3 * SAMPLE_RATE

\* main.py:107-109, `len(audio) / SAMPLE_RATE < 0.3`; the quotient of the
\* two integers is the double nearest to it and 0.3 the double nearest to
\* 3/10, so the comparison of doubles is the comparison of the fractions
TooShort(frames) == 10 * NumSamples(frames) < 3 * SAMPLE_RATE

\* the calls of start_recording that have not yet created their capture thread
Starting == {u \in Callers : pc[u] \in {"sr59", "sr71", "rsr64", "rsr66", "rsr67", "rsr70"}}

\* the call ends: its caller sees the outcome at "ret"
Return(t, how) ==
    /\ pc' = [pc EXCEPT ![t] = "ret"]
    /\ obs' = [obs EXCEPT ![t].outcome = how]

Goto(t, label) == pc' = [pc EXCEPT ![t] = label]

\* ------------------------------------------------------- SpeechToTextModel
\* the load threads created so far
NLoads == Cardinality({l \in Loads : lpc[l] # "none"})

\* load_model_async: returns at once when the flag is set, and otherwise
\* creates and starts a thread running _load, whatever earlier threads do
load_model_async ==
    /\ NLoads < bound.loads
    /\ IF gate_loaded
       THEN UNCHANGED <<load_thread, lpc>>
       ELSE /\ load_thread' = NLoads + 1
            /\ lpc' = [lpc EXCEPT ![NLoads + 1] = "loading"]
    /\ UNCHANGED <<coordVars, recVars, pipeline, gate_loaded, monitor, callerVars,
                   captureVars, queueVars>>

\* a _load that clears the flag when it fails
load_pipeline_clearing(l) ==
    /\ lpc[l] = "loading"
    /\ \/ pipeline' = TRUE /\ lpc' = [lpc EXCEPT ![l] = "load70"] /\ gate_loaded' = gate_loaded
       \/ pipeline' = pipeline /\ lpc' = [lpc EXCEPT ![l] = "failed"] /\ gate_loaded' = FALSE
    /\ UNCHANGED <<coordVars, recVars, load_thread, monitor, callerVars,
                   captureVars, queueVars>>

\* a _load that sets the flag before it has built the pipeline
load_pipeline_flag_first(l) ==
    /\ lpc[l] = "loading"
    /\ gate_loaded' = TRUE
    /\ lpc' = [lpc EXCEPT ![l] = "load70"]
    /\ UNCHANGED <<coordVars, recVars, pipeline, load_thread, monitor, callerVars,
                   captureVars, queueVars>>

\* _load up to the assignment of self.pipeline, which from_pretrained or
\* pipeline() may leave by raising
load_pipeline(l) ==
    /\ lpc[l] = "loading"
    /\ \/ pipeline' = TRUE /\ lpc' = [lpc EXCEPT ![l] = "load70"]
       \/ pipeline' = pipeline /\ lpc' = [lpc EXCEPT ![l] = "failed"]
    /\ UNCHANGED <<coordVars, recVars, gate_loaded, load_thread, monitor, callerVars,
                   captureVars, queueVars>>

\* line 70, self.model_loaded = True
load_flag(l) ==
    /\ lpc[l] = "load70"
    /\ gate_loaded' = TRUE
    /\ lpc' = [lpc EXCEPT ![l] = "done"]
    /\ UNCHANGED <<coordVars, recVars, pipeline, load_thread, monitor, callerVars,
                   captureVars, queueVars>>

\* run() starts the monitor thread after load_model_async, main.py:211
start_monitor ==
    /\ monitor = "none"
    /\ load_thread # NoLoad
    /\ monitor' = "wait199"
    /\ UNCHANGED <<coordVars, recVars, pipeline, gate_loaded, load_thread, lpc, callerVars,
                   captureVars, queueVars>>

\* a wait_for_model that returns True once its join has returned
wait_for_model_joined ==
    /\ monitor = "wait199"
    /\ monitor' = "set200"
    /\ UNCHANGED <<coordVars, recVars, pipeline, gate_loaded, load_thread, lpc, callerVars,
                   captureVars, queueVars>>

\* wait_for_model(timeout=120): the join returns when the load thread has
\* ended or when the timeout has passed, and the flag is read after it
wait_for_model ==
    /\ monitor = "wait199"
    /\ monitor' = IF gate_loaded THEN "set200" ELSE "set204"
    /\ UNCHANGED <<coordVars, recVars, pipeline, gate_loaded, load_thread, lpc, callerVars,
                   captureVars, queueVars>>

\* a monitor that marks the application ready whatever the wait returned
wait_result_unchecked ==
    /\ monitor \in {"set200", "set204"}
    /\ model_loaded' = TRUE
    /\ icon_title' = "ready"
    /\ monitor' = "done"
    /\ UNCHANGED <<is_recording, tray_is_recording, recVars, pipeline, gate_loaded,
                   load_thread, lpc, callerVars, captureVars, queueVars>>

\* lines 199-204 of _wait_for_model: the result of the wait decides
wait_result ==
    /\ monitor \in {"set200", "set204"}
    /\ IF monitor = "set200"
       THEN model_loaded' = TRUE /\ icon_title' = "ready"
       ELSE model_loaded' = model_loaded /\ icon_title' = "failed"
    /\ monitor' = "done"
    /\ UNCHANGED <<is_recording, tray_is_recording, recVars, pipeline, gate_loaded,
                   load_thread, lpc, callerVars, captureVars, queueVars>>

\* ----------------------------------------------------------------- TrayApp
on_record_click(t) ==
    /\ pc[t] = "idle"
    /\ calls_left[t] > 0
    /\ ~tray_is_recording => nsess + Cardinality(Starting) < bound.sessions
    /\ op' = [op EXCEPT ![t] = IF tray_is_recording THEN "stop_recording"
                                                     ELSE "start_recording"]
    /\ calls_left' = [calls_left EXCEPT ![t] = @ - 1]
    /\ obs' = [obs EXCEPT ![t] = NoObs]
    /\ Goto(t, IF tray_is_recording THEN "st78" ELSE "sr59")
    /\ UNCHANGED <<coordVars, recVars, modelVars, add_newline, audio_data, waitq,
                   captureVars, queueVars>>

\* --------------------------------------------------------- SpeechToTextApp
\* a start_recording without the test of line 67
start_recording_unguarded(t) ==
    /\ \/ /\ pc[t] = "idle"
          /\ calls_left[t] > 0
          /\ op' = [op EXCEPT ![t] = "start_recording"]
          /\ calls_left' = [calls_left EXCEPT ![t] = @ - 1]
       \/ /\ pc[t] = "sr59"
          /\ UNCHANGED <<op, calls_left>>
    /\ IF ~model_loaded
       THEN /\ pc' = [pc EXCEPT ![t] = "ret"]
            /\ obs' = [obs EXCEPT ![t] = [NoObs EXCEPT !.outcome = "model_loading"]]
       ELSE /\ pc' = [pc EXCEPT ![t] = "sr71"]
            /\ obs' = [obs EXCEPT ![t] = NoObs]
    /\ UNCHANGED <<coordVars, recVars, modelVars, add_newline, audio_data, waitq,
                   captureVars, queueVars>>

\* start_recording up to its two guards; entered from a hotkey or from the
\* tray's on_record_click
start_recording(t) ==
    /\ \/ /\ pc[t] = "idle"
          /\ calls_left[t] > 0
          /\ (model_loaded /\ ~is_recording) => nsess + Cardinality(Starting) < bound.sessions
          /\ op' = [op EXCEPT ![t] = "start_recording"]
          /\ calls_left' = [calls_left EXCEPT ![t] = @ - 1]
       \/ /\ pc[t] = "sr59"
          /\ UNCHANGED <<op, calls_left>>
    /\ IF ~model_loaded
       THEN /\ pc' = [pc EXCEPT ![t] = "ret"]
            /\ obs' = [obs EXCEPT ![t] = [NoObs EXCEPT !.outcome = "model_loading"]]
       ELSE IF is_recording
       THEN /\ pc' = [pc EXCEPT ![t] = "ret"]
            /\ obs' = [obs EXCEPT ![t] = [NoObs EXCEPT !.outcome = "already_recording"]]
       ELSE /\ pc' = [pc EXCEPT ![t] = "sr71"]
            /\ obs' = [obs EXCEPT ![t] = NoObs]
    /\ UNCHANGED <<coordVars, recVars, modelVars, add_newline, audio_data, waitq,
                   captureVars, queueVars>>

start_recording_71(t) ==
    /\ pc[t] = "sr71"
    /\ is_recording' = TRUE
    /\ Goto(t, "rsr64")
    /\ UNCHANGED <<model_loaded, tray_is_recording, icon_title, recVars, modelVars,
                   op, add_newline, audio_data, waitq, calls_left, obs, captureVars, queueVars>>

start_recording_73(t) ==
    /\ pc[t] = "sr73"
    /\ tray_is_recording' = TRUE
    /\ obs' = [obs EXCEPT ![t].ui = Append(@, TRUE), ![t].outcome = "started"]
    /\ pc' = [pc EXCEPT ![t] = "ret"]
    /\ UNCHANGED <<is_recording, model_loaded, icon_title, recVars, modelVars,
                   op, add_newline, audio_data, waitq, calls_left, captureVars, queueVars>>

\* stop_recording up to its guard
stop_recording(t) ==
    /\ \/ /\ pc[t] = "idle"
          /\ calls_left[t] > 0
          /\ op' = [op EXCEPT ![t] = "stop_recording"]
          /\ calls_left' = [calls_left EXCEPT ![t] = @ - 1]
       \/ /\ pc[t] = "st78"
          /\ UNCHANGED <<op, calls_left>>
    /\ IF ~is_recording
       THEN /\ pc' = [pc EXCEPT ![t] = "ret"]
            /\ obs' = [obs EXCEPT ![t] = [NoObs EXCEPT !.outcome = "not_recording"]]
       ELSE /\ pc' = [pc EXCEPT ![t] = "st82"]
            /\ obs' = [obs EXCEPT ![t] = NoObs]
    /\ UNCHANGED <<coordVars, recVars, modelVars, add_newline, audio_data, waitq,
                   captureVars, queueVars>>

stop_recording_82(t) ==
    /\ pc[t] = "st82"
    /\ is_recording' = FALSE
    /\ Goto(t, "rst76")
    /\ UNCHANGED <<model_loaded, tray_is_recording, icon_title, recVars, modelVars,
                   op, add_newline, audio_data, waitq, calls_left, obs, captureVars, queueVars>>

\* a stop_recording that returns the audio without line 84
stop_recording_84_silent(t) ==
    /\ pc[t] = "st84"
    /\ obs' = [obs EXCEPT ![t].outcome = "stopped"]
    /\ pc' = [pc EXCEPT ![t] = "ret"]
    /\ UNCHANGED <<coordVars, recVars, modelVars,
                   op, add_newline, audio_data, waitq, calls_left, captureVars, queueVars>>

stop_recording_84(t) ==
    /\ pc[t] = "st84"
    /\ tray_is_recording' = FALSE
    /\ obs' = [obs EXCEPT ![t].ui = Append(@, FALSE), ![t].outcome = "stopped"]
    /\ pc' = [pc EXCEPT ![t] = "ret"]
    /\ UNCHANGED <<is_recording, model_loaded, icon_title, recVars, modelVars,
                   op, add_newline, audio_data, waitq, calls_left, captureVars, queueVars>>

\* a _stop_and_transcribe_internal without the test of line 94
stop_and_transcribe_internal_unguarded(t, nl) ==
    /\ pc[t] = "idle"
    /\ calls_left[t] > 0
    /\ op' = [op EXCEPT ![t] = "stop_and_transcribe"]
    /\ calls_left' = [calls_left EXCEPT ![t] = @ - 1]
    /\ add_newline' = [add_newline EXCEPT ![t] = nl]
    /\ pc' = [pc EXCEPT ![t] = "sat98"]
    /\ obs' = [obs EXCEPT ![t] = NoObs]
    /\ UNCHANGED <<coordVars, recVars, modelVars, audio_data, waitq,
                   captureVars, queueVars>>

\* quit, lines 151-155: the test of is_recording, and the call of
\* stop_recording that follows when it is found set
quit(t) ==
    /\ pc[t] = "idle"
    /\ calls_left[t] > 0
    /\ op' = [op EXCEPT ![t] = "quit"]
    /\ calls_left' = [calls_left EXCEPT ![t] = @ - 1]
    /\ obs' = [obs EXCEPT ![t] = NoObs]
    /\ Goto(t, IF is_recording THEN "st78" ELSE "q158")
    /\ UNCHANGED <<coordVars, recVars, modelVars, add_newline, audio_data, waitq,
                   captureVars, queueVars>>

\* lines 158-161: the tray icon is stopped, which ends run() on the main
\* thread, and sys.exit(0) follows; the process ends and with it every
\* thread, all of them daemon threads, wherever it is
quit_158(t) ==
    /\ op[t] = "quit"
    /\ pc[t] \in {"q158", "ret"}
    /\ pc' = [u \in Callers |-> "exited"]
    /\ cpc' = [s \in Sessions |-> "exited"]
    /\ cbpc' = [s \in Sessions |-> "exited"]
    /\ lpc' = [l \in Loads |-> "exited"]
    /\ monitor' = "exited"
    /\ UNCHANGED <<coordVars, recVars, pipeline, gate_loaded, load_thread, op, add_newline,
                   audio_data, waitq, obs, calls_left, sstate, period, nsess, bound,
                   queueVars>>

\* _stop_and_transcribe_internal up to its guard
stop_and_transcribe_internal(t, nl) ==
    /\ pc[t] = "idle"
    /\ calls_left[t] > 0
    /\ op' = [op EXCEPT ![t] = "stop_and_transcribe"]
    /\ calls_left' = [calls_left EXCEPT ![t] = @ - 1]
    /\ add_newline' = [add_newline EXCEPT ![t] = nl]
    /\ IF ~is_recording
       THEN /\ pc' = [pc EXCEPT ![t] = "ret"]
            /\ obs' = [obs EXCEPT ![t] = [NoObs EXCEPT !.outcome = "not_recording"]]
       ELSE /\ pc' = [pc EXCEPT ![t] = "sat98"]
            /\ obs' = [obs EXCEPT ![t] = NoObs]
    /\ UNCHANGED <<coordVars, recVars, modelVars, audio_data, waitq,
                   captureVars, queueVars>>

stop_and_transcribe(t) == stop_and_transcribe_internal(t, TRUE)

stop_and_send(t) == stop_and_transcribe_internal(t, FALSE)

stop_and_transcribe_98(t) ==
    /\ pc[t] = "sat98"
    /\ is_recording' = FALSE
    /\ Goto(t, "sat99")
    /\ UNCHANGED <<model_loaded, tray_is_recording, icon_title, recVars, modelVars,
                   op, add_newline, audio_data, waitq, calls_left, obs, captureVars, queueVars>>

\* line 99 notifying the tray twice over
stop_and_transcribe_99_twice(t) ==
    /\ pc[t] = "sat99"
    /\ tray_is_recording' = FALSE
    /\ obs' = [obs EXCEPT ![t].ui = Append(Append(@, FALSE), FALSE)]
    /\ Goto(t, "rst76")
    /\ UNCHANGED <<is_recording, model_loaded, icon_title, recVars, modelVars,
                   op, add_newline, audio_data, waitq, calls_left, captureVars, queueVars>>

\* line 99, tray.set_recording_state(False), and the call of line 101
stop_and_transcribe_99(t) ==
    /\ pc[t] = "sat99"
    /\ tray_is_recording' = FALSE
    /\ obs' = [obs EXCEPT ![t].ui = Append(@, FALSE)]
    /\ Goto(t, "rst76")
    /\ UNCHANGED <<is_recording, model_loaded, icon_title, recVars, modelVars,
                   op, add_newline, audio_data, waitq, calls_left, captureVars, queueVars>>

\* lines 103-114 without the duration check of line 109
stop_and_transcribe_103_unchecked(t) ==
    /\ pc[t] = "sat103"
    /\ IF audio_data[t] = NoAudio
       THEN Return(t, "no_audio")
       ELSE IF ~gate_loaded
       THEN Return(t, "failed")
       ELSE Goto(t, "mt102") /\ obs' = obs
    /\ UNCHANGED <<coordVars, recVars, modelVars, op, add_newline, audio_data, waitq,
                   calls_left, captureVars, queueVars>>

\* lines 103-114 and SpeechToTextModel.transcribe up to the pipeline call
stop_and_transcribe_103(t) ==
    /\ pc[t] = "sat103"
    /\ IF audio_data[t] = NoAudio
       THEN Return(t, "no_audio")
       ELSE IF TooShort(audio_data[t])
       THEN Return(t, "too_short")
       ELSE IF ~gate_loaded
       THEN Return(t, "failed")
       ELSE Goto(t, "mt102") /\ obs' = obs
    /\ UNCHANGED <<coordVars, recVars, modelVars, op, add_newline, audio_data, waitq,
                   calls_left, captureVars, queueVars>>

\* the calls on the text injector: inject(text), and the press of Key.enter
InjectCall(text) == <<"inject", text>>
EnterCall == <<"press", "enter">>

\* lines 116-137 with an Enter that does not look at add_newline
AfterTranscribeAlwaysEnter(o, text, nl, done, pressed) ==
    IF TextOk(text)
    THEN [o EXCEPT !.engine = "returned",
                   !.text = text,
                   !.inject = text,
                   !.injected = done,
                   !.enter = 1,
                   !.calls = <<InjectCall(text), EnterCall>>,
                   !.outcome = IF ~pressed THEN "unwound" ELSE "injected"]
    ELSE [o EXCEPT !.engine = IF text = NoText THEN "raised" ELSE "returned",
                   !.text = text,
                   !.outcome = "failed"]

\* what is left of the call once the pipeline call has ended with `text`
\* (None when transcribe caught an exception), main.py:116-137: inject
\* returns `done`, and the press of Key.enter succeeds (`pressed`) or raises
AfterTranscribe(o, text, nl, done, pressed) ==
    IF TextOk(text)
    THEN [o EXCEPT !.engine = "returned",
                   !.text = text,
                   !.inject = text,
                   !.injected = done,
                   !.enter = IF nl THEN 1 ELSE 0,
                   !.calls = IF nl THEN <<InjectCall(text), EnterCall>>
                                   ELSE <<InjectCall(text)>>,
                   !.outcome = IF nl /\ ~pressed THEN "unwound" ELSE "injected"]
    ELSE [o EXCEPT !.engine = IF text = NoText THEN "raised" ELSE "returned",
                   !.text = text,
                   !.outcome = "failed"]

\* the pipeline call returns a text, or raises and transcribe returns None
\* (model.py:109-112); lines 116-137 of main.py follow
transcribe_return(t) ==
    /\ pc[t] = "mt102"
    /\ pc' = [pc EXCEPT ![t] = "ret"]
    /\ \E text \in Texts \cup {NoText}, done \in BOOLEAN, pressed \in BOOLEAN :
         obs' = [obs EXCEPT ![t] = AfterTranscribe(@, text, add_newline[t], done, pressed)]
    /\ UNCHANGED <<coordVars, recVars, modelVars, op, add_newline, audio_data, waitq,
                   calls_left, captureVars, queueVars>>

\* ----------------------------------------------------------- AudioRecorder
\* the frames put so far on the g-th queue object, in the order of the puts
RECURSIVE PushedFrom(_, _)
PushedFrom(fs, g) ==
    IF fs = <<>> THEN <<>>
    ELSE IF Head(fs)[3] = g THEN <<Head(fs)>> \o PushedFrom(Tail(fs), g)
    ELSE PushedFrom(Tail(fs), g)

PushedOn(g) == PushedFrom(pushed, g)

\* the queue objects that a stop_recording in progress is still to account
\* for: those whose flag it cleared at line 78 and whose drain has not ended
DrainingBut(t) ==
    {obs[u].stopped :
        u \in {v \in Callers \ {t} : pc[v] \in {"rst81", "rst84", "rst85", "rst85w"}}}

Draining == DrainingBut(0)

\* the frames of fs that were put on one of the queues gs
RECURSIVE PutOn(_, _)
PutOn(fs, gs) ==
    IF fs = <<>> THEN <<>>
    ELSE IF Head(fs)[3] \in gs THEN <<Head(fs)>> \o PutOn(Tail(fs), gs)
    ELSE PutOn(Tail(fs), gs)


\* an AudioRecorder.start_recording without the test of line 64
rec_start_64_untested(t) ==
    /\ pc[t] = "rsr64"
    /\ Goto(t, "rsr66")
    /\ UNCHANGED <<coordVars, recVars, modelVars, op, add_newline, audio_data, waitq,
                   calls_left, obs, captureVars, queueVars>>

\* AudioRecorder.start_recording, one step per statement
rec_start_64(t) ==
    /\ pc[t] = "rsr64"
    /\ Goto(t, IF rec_is_recording THEN "sr73" ELSE "rsr66")
    /\ UNCHANGED <<coordVars, recVars, modelVars, op, add_newline, audio_data, waitq,
                   calls_left, obs, captureVars, queueVars>>

rec_start_66(t) ==
    /\ pc[t] = "rsr66"
    /\ rec_is_recording' = TRUE
    /\ Goto(t, "rsr67")
    /\ UNCHANGED <<coordVars, audio_queue, stream, recording_thread, modelVars, op,
                   add_newline, audio_data, waitq, calls_left, obs, captureVars, queueVars>>

rec_start_67(t) ==
    /\ pc[t] = "rsr67"
    /\ audio_queue' = <<>>
    /\ qgen' = qgen + 1
    /\ pushed' = PutOn(pushed, Draining)
    /\ Goto(t, "rsr70")
    /\ UNCHANGED <<coordVars, rec_is_recording, stream, recording_thread, modelVars, op,
                   add_newline, audio_data, waitq, calls_left, obs, captureVars>>

rec_start_70(t) ==
    /\ pc[t] = "rsr70"
    /\ nsess < bound.sessions
    /\ nsess' = nsess + 1
    /\ recording_thread' = nsess + 1
    /\ cpc' = [cpc EXCEPT ![nsess + 1] = "open34"]
    /\ period' = [period EXCEPT ![nsess + 1] = qgen]
    /\ Goto(t, "sr73")
    /\ UNCHANGED <<coordVars, rec_is_recording, audio_queue, stream, modelVars, op,
                   add_newline, audio_data, waitq, calls_left, obs, sstate, cbpc, bound,
                   queueVars>>

\* where the caller of AudioRecorder.stop_recording goes on
AfterStop(t) == IF op[t] \in {"stop_recording", "quit"} THEN "st84" ELSE "sat103"

\* AudioRecorder.stop_recording
rec_stop_76(t) ==
    /\ pc[t] = "rst76"
    /\ IF rec_is_recording
       THEN Goto(t, "rst78") /\ audio_data' = audio_data
       ELSE Goto(t, AfterStop(t)) /\ audio_data' = [audio_data EXCEPT ![t] = NoAudio]
    /\ UNCHANGED <<coordVars, recVars, modelVars, op, add_newline, waitq,
                   calls_left, obs, captureVars, queueVars>>

rec_stop_78(t) ==
    /\ pc[t] = "rst78"
    /\ rec_is_recording' = FALSE
    /\ obs' = [obs EXCEPT ![t].stopped = qgen]
    /\ Goto(t, "rst81")
    /\ UNCHANGED <<coordVars, audio_queue, stream, recording_thread, modelVars, op,
                   add_newline, audio_data, waitq, calls_left, captureVars, queueVars>>

\* `if self.recording_thread: self.recording_thread.join(timeout=1.0)`: the
\* thread has ended (or there is none yet); line 83 follows
rec_stop_81(t) ==
    /\ pc[t] = "rst81"
    /\ IF recording_thread = NoStream THEN TRUE ELSE cpc[recording_thread] = "done"
    /\ audio_data' = [audio_data EXCEPT ![t] = <<>>]
    /\ Goto(t, "rst84")
    /\ UNCHANGED <<coordVars, recVars, modelVars, op, add_newline, waitq,
                   calls_left, obs, captureVars, queueVars>>

\* the join gives up after its second while the thread still runs
rec_stop_81_timeout(t) ==
    /\ pc[t] = "rst81"
    /\ IF recording_thread = NoStream THEN FALSE ELSE cpc[recording_thread] # "done"
    /\ audio_data' = [audio_data EXCEPT ![t] = <<>>]
    /\ Goto(t, "rst84")
    /\ UNCHANGED <<coordVars, recVars, modelVars, op, add_newline, waitq,
                   calls_left, obs, captureVars, queueVars>>

\* `while not self.audio_queue.empty()`, and lines 87-90 when it is empty
rec_stop_84(t) ==
    /\ pc[t] = "rst84"
    /\ IF audio_queue = <<>>
       THEN /\ Goto(t, AfterStop(t))
            /\ obs' = [obs EXCEPT ![t].stopped = 0]
            /\ pushed' = PutOn(pushed, DrainingBut(t) \cup {qgen})
       ELSE /\ Goto(t, "rst85")
            /\ UNCHANGED <<obs, pushed>>
    /\ UNCHANGED <<coordVars, recVars, modelVars, op, add_newline, audio_data, waitq,
                   calls_left, captureVars, qgen>>

\* `self.audio_queue.get()`: takes the head, or blocks on the queue object
\* it found empty
rec_stop_85(t) ==
    /\ pc[t] = "rst85"
    /\ IF audio_queue # <<>>
       THEN /\ audio_data' = [audio_data EXCEPT ![t] = Append(@, Head(audio_queue))]
            /\ audio_queue' = Tail(audio_queue)
            /\ Goto(t, "rst84")
            /\ waitq' = waitq
       ELSE /\ waitq' = [waitq EXCEPT ![t] = qgen]
            /\ Goto(t, "rst85w")
            /\ UNCHANGED <<audio_data, audio_queue>>
    /\ UNCHANGED <<coordVars, rec_is_recording, stream, recording_thread, modelVars, op,
                   add_newline, calls_left, obs, captureVars, queueVars>>

rec_stop_85_wake(t) ==
    /\ pc[t] = "rst85w"
    /\ waitq[t] = qgen
    /\ audio_queue # <<>>
    /\ audio_data' = [audio_data EXCEPT ![t] = Append(@, Head(audio_queue))]
    /\ audio_queue' = Tail(audio_queue)
    /\ Goto(t, "rst84")
    /\ UNCHANGED <<coordVars, rec_is_recording, stream, recording_thread, modelVars, op,
                   add_newline, waitq, calls_left, obs, captureVars, queueVars>>

\* _record_audio, the capture thread of session s.  PyAudio.open starts the
\* stream it opens (start=True is its default), so callbacks run from here on.
record_audio_34(s) ==
    /\ cpc[s] = "open34"
    /\ stream' = s
    /\ sstate' = [sstate EXCEPT ![s] = "active"]
    /\ cpc' = [cpc EXCEPT ![s] = "start42"]
    /\ UNCHANGED <<coordVars, rec_is_recording, audio_queue, recording_thread, modelVars,
                   callerVars, cbpc, period, nsess, bound, queueVars>>

\* self.audio.open raises: no device, or the device is busy
record_audio_34_raise(s) ==
    /\ cpc[s] = "open34"
    /\ cpc' = [cpc EXCEPT ![s] = "finally49"]
    /\ UNCHANGED <<coordVars, recVars, modelVars, callerVars, sstate, cbpc, period, nsess, bound,
                   queueVars>>

\* self.stream.start_stream(): on whatever stream the field holds now
record_audio_42(s) ==
    /\ cpc[s] = "start42"
    /\ IF sstate[stream] = "closed"
       THEN cpc' = [cpc EXCEPT ![s] = "finally49"] /\ sstate' = sstate
       ELSE /\ cpc' = [cpc EXCEPT ![s] = "loop44"]
            /\ sstate' = [sstate EXCEPT ![stream] = "active"]
    /\ UNCHANGED <<coordVars, recVars, modelVars, callerVars, cbpc, period, nsess, bound, queueVars>>

\* `while self.is_recording` found false
record_audio_44(s) ==
    /\ cpc[s] = "loop44"
    /\ ~rec_is_recording
    /\ cpc' = [cpc EXCEPT ![s] = "finally49"]
    /\ UNCHANGED <<coordVars, recVars, modelVars, callerVars, sstate, cbpc, period, nsess, bound,
                   queueVars>>

\* `if self.stream: self.stream.stop_stream()`; stop_stream waits for a
\* running callback and raises on a closed stream
record_audio_49(s) ==
    /\ cpc[s] = "finally49"
    /\ IF stream = NoStream
       THEN cpc' = [cpc EXCEPT ![s] = "done"] /\ sstate' = sstate
       ELSE IF sstate[stream] = "closed"
       THEN cpc' = [cpc EXCEPT ![s] = "done"] /\ sstate' = sstate
       ELSE /\ cbpc[stream] = "idle"
            /\ sstate' = [sstate EXCEPT ![stream] = "stopped"]
            /\ cpc' = [cpc EXCEPT ![s] = "close51"]
    /\ UNCHANGED <<coordVars, recVars, modelVars, callerVars, cbpc, period, nsess, bound, queueVars>>

\* self.stream.close()
record_audio_51(s) ==
    /\ cpc[s] = "close51"
    /\ cbpc[stream] = "idle"
    /\ sstate' = [sstate EXCEPT ![stream] = "closed"]
    /\ cpc' = [cpc EXCEPT ![s] = "done"]
    /\ UNCHANGED <<coordVars, recVars, modelVars, callerVars, cbpc, period, nsess, bound, queueVars>>

\* an _audio_callback that queues its frame without the test of line 55
audio_callback_untested(x) ==
    /\ sstate[x] = "active"
    /\ cbpc[x] = "idle"
    /\ Len(PushedOn(qgen)) + Cardinality({y \in Sessions : cbpc[y] = "put59"})
           < (IF qgen <= 1 THEN bound.frames ELSE MaxFrames)
    /\ cbpc' = [cbpc EXCEPT ![x] = "put59"]
    /\ UNCHANGED <<coordVars, recVars, modelVars, callerVars, cpc, sstate, period, nsess, bound,
                   queueVars>>

\* _audio_callback on the driver's thread of stream x: the test of line 55
\* found true.  (Found false, the callback changes nothing.)
audio_callback(x) ==
    /\ sstate[x] = "active"
    /\ cbpc[x] = "idle"
    /\ rec_is_recording
    /\ Len(PushedOn(qgen)) + Cardinality({y \in Sessions : cbpc[y] = "put59"})
           < (IF qgen <= 1 THEN bound.frames ELSE MaxFrames)
    /\ cbpc' = [cbpc EXCEPT ![x] = "put59"]
    /\ UNCHANGED <<coordVars, recVars, modelVars, callerVars, cpc, sstate, period, nsess, bound,
                   queueVars>>

\* a frame of a stream opened with half the buffer size
FrameHalf(x) == <<x, Len(PushedOn(qgen)) + 1, qgen, CHUNK_SIZE \div 2>>

\* a frame: the stream that produced it, its place among the frames put on
\* its queue, that queue, and its length (frames_per_buffer samples)
Frame(x) == <<x, Len(PushedOn(qgen)) + 1, qgen, CHUNK_SIZE>>

\* line 59: the frame goes on the queue the field holds now
audio_callback_59(x) ==
    /\ cbpc[x] = "put59"
    /\ audio_queue' = Append(audio_queue, Frame(x))
    /\ pushed' = Append(pushed, Frame(x))
    /\ cbpc' = [cbpc EXCEPT ![x] = "idle"]
    /\ UNCHANGED <<coordVars, rec_is_recording, stream, recording_thread, modelVars,
                   callerVars, cpc, sstate, period, nsess, bound, qgen>>

\* the call has returned to the hotkey listener or the tray: its locals are gone
call_return(t) ==
    /\ pc[t] = "ret"
    /\ op[t] # "quit"
    /\ pc' = [pc EXCEPT ![t] = "idle"]
    /\ op' = [op EXCEPT ![t] = "none"]
    /\ add_newline' = [add_newline EXCEPT ![t] = FALSE]
    /\ audio_data' = [audio_data EXCEPT ![t] = <<>>]
    /\ waitq' = [waitq EXCEPT ![t] = 0]
    /\ obs' = [obs EXCEPT ![t] = NoObs]
    /\ UNCHANGED <<coordVars, recVars, modelVars, calls_left, captureVars, queueVars>>

\* ------------------------------------------------------------ specification
\* the model's load thread and the monitor thread of run()
Loading ==
    \/ load_model_async
    \/ \E l \in Loads : load_pipeline(l)
    \/ \E l \in Loads : load_flag(l)
    \/ start_monitor
    \/ wait_for_model
    \/ wait_result

\* StartRecording, from a hotkey
Starts(t) ==
    \/ start_recording(t)
    \/ start_recording_71(t)
    \/ start_recording_73(t)
    \/ rec_start_64(t)
    \/ rec_start_66(t)
    \/ rec_start_67(t)
    \/ rec_start_70(t)
    \/ call_return(t)

\* AudioRecorder.stop_recording, under StopOnly and StopAndTranscribe
RecStops(t) ==
    \/ rec_stop_76(t)
    \/ rec_stop_78(t)
    \/ rec_stop_81(t)
    \/ rec_stop_84(t)
    \/ rec_stop_85(t)
    \/ rec_stop_85_wake(t)

\* StopAndTranscribe, after either hotkey's guard
Transcribes(t) ==
    \/ stop_and_transcribe_98(t)
    \/ stop_and_transcribe_99(t)
    \/ stop_and_transcribe_103(t)
    \/ transcribe_return(t)

\* StopOnly and the tray's menu item
StopOnlys(t) ==
    \/ on_record_click(t)
    \/ stop_recording(t)
    \/ stop_recording_82(t)
    \/ stop_recording_84(t)

\* the capture threads and the driver's callbacks
Captures ==
    \E s \in Sessions :
        \/ record_audio_34(s)
        \/ record_audio_42(s)
        \/ record_audio_44(s)
        \/ record_audio_49(s)
        \/ record_audio_51(s)
        \/ audio_callback(s)
        \/ audio_callback_59(s)

\* what the machine may do to a capture: fail to open the device, or keep
\* the capture thread off the processor past the join's timeout
Faults ==
    \/ \E s \in Sessions : record_audio_34_raise(s)
    \/ \E t \in Callers : rec_stop_81_timeout(t)

\* the least number of frames the duration check of main.py:109 lets through
AcceptFrames ==
    CHOOSE n \in 1..SAMPLE_RATE :
        \A k \in 0..n : TooShort([i \in 1..k |-> <<0, i, 0, CHUNK_SIZE>>]) <=> k < n

\* every thread up to the pipeline call: recordings too short to transcribe
Next ==
    \/ Loading
    \/ Captures
    \/ Faults
    \/ \E t \in Callers :
         \/ Starts(t)
         \/ RecStops(t)
         \/ StopOnlys(t)
         \/ stop_and_transcribe(t)
         \/ stop_and_send(t)
         \/ stop_and_transcribe_98(t)
         \/ stop_and_transcribe_99(t)
         \/ stop_and_transcribe_103(t)

Spec == Init /\ [][Next]_vars

\* the hotkeys alone, with recordings long enough to transcribe, on a machine
\* that opens the device and schedules the capture thread in time; the second
\* thread makes one call
NextHotkeys ==
    \/ Loading
    \/ Captures
    \/ \E t \in Callers :
         \/ Starts(t)
         \/ RecStops(t)
         \/ stop_and_transcribe(t)
         \/ stop_and_send(t)
         \/ Transcribes(t)

SpecHotkeys ==
    Start(MaxCalls, MaxCalls - 1, MaxSessions, AcceptFrames) /\ [][NextHotkeys]_vars

\* the same with one recording, long enough for two transcriptions
\* (without a second session or a join that gives up no get ever blocks)
NextLong ==
    \/ Loading
    \/ Captures
    \/ \E t \in Callers :
         \/ Starts(t)
         \/ stop_and_transcribe(t)
         \/ stop_and_send(t)
         \/ Transcribes(t)
         \/ rec_stop_76(t)
         \/ rec_stop_78(t)
         \/ rec_stop_81(t)
         \/ rec_stop_84(t)
         \/ rec_stop_85(t)

SpecLong == Start(MaxCalls, MaxCalls - 1, 1, 2 * AcceptFrames) /\ [][NextLong]_vars

\* one thread calling, twice as often: calls that never overlap
NextSolo ==
    \/ Loading
    \/ Captures
    \/ Faults
    \/ \E t \in Callers :
         \/ Starts(t)
         \/ StopOnlys(t)
         \/ stop_and_transcribe(t)
         \/ stop_and_send(t)
         \/ stop_and_transcribe_98(t)
         \/ stop_and_transcribe_99(t)
         \/ stop_and_transcribe_103(t)
         \/ rec_stop_76(t)
         \/ rec_stop_78(t)
         \/ rec_stop_81(t)
         \/ rec_stop_84(t)
         \/ rec_stop_85(t)

SpecSolo == Start(2 * MaxCalls, 0, MaxSessions, MaxFrames) /\ [][NextSolo]_vars

\* the duration check of _stop_and_transcribe_internal on its own: a thread
\* at line 103 to which stop_recording has returned a clip of n samples
AtDurationCheck(n, nl) ==
    /\ is_recording = FALSE
    /\ model_loaded = TRUE
    /\ tray_is_recording = FALSE
    /\ icon_title = "ready"
    /\ rec_is_recording = FALSE
    /\ audio_queue = <<>>
    /\ stream = 1
    /\ recording_thread = 1
    /\ pipeline = TRUE
    /\ gate_loaded = TRUE
    /\ load_thread = 1
    /\ lpc = [l \in Loads |-> IF l = 1 THEN "done" ELSE "none"]
    /\ monitor = "done"
    /\ pc = [t \in Callers |-> IF t = 1 THEN "sat103" ELSE "idle"]
    /\ op = [t \in Callers |-> IF t = 1 THEN "stop_and_transcribe" ELSE "none"]
    /\ add_newline = [t \in Callers |-> t = 1 /\ nl]
    /\ audio_data = [t \in Callers |-> IF t = 1 THEN << <<1, 1, 1, n>> >> ELSE <<>>]
    /\ waitq = [t \in Callers |-> 0]
    /\ obs = [t \in Callers |-> IF t = 1 THEN [NoObs EXCEPT !.ui = <<FALSE>>] ELSE NoObs]
    /\ cpc = [s \in Sessions |-> IF s = 1 THEN "done" ELSE "none"]
    /\ sstate = [s \in Sessions |-> IF s = 1 THEN "closed" ELSE "unopened"]
    /\ cbpc = [s \in Sessions |-> "idle"]
    /\ period = [s \in Sessions |-> IF s = 1 THEN 1 ELSE 0]
    /\ nsess = 1
    /\ qgen = 1
    /\ pushed = <<>>
    /\ calls_left = [t \in Callers |-> 0]
    /\ bound = [sessions |-> 1, frames |-> 0, loads |-> 1]

NextDuration ==
    \E t \in Callers :
        \/ stop_and_transcribe_103(t)
        \/ transcribe_return(t)
        \/ call_return(t)

SpecDuration ==
    /\ \E n \in 0..MaxSamples, nl \in BOOLEAN : AtDurationCheck(n, nl)
    /\ [][NextDuration]_vars

\* the model and the start guard under repeated calls of load_model_async
NextLoad ==
    \/ Loading
    \/ \E t \in Callers : Starts(t)

SpecLoad == StartWith(MaxCalls, MaxCalls - 1, 1, 0, MaxLoads) /\ [][NextLoad]_vars

\* the load started by run(), with threads that are scheduled: a load thread
\* that can take a step takes it in the end, and so does the monitor thread,
\* whose join returns at the latest when its 120 seconds have passed
SpecLoadFair ==
    /\ Start(MaxCalls, MaxCalls - 1, 1, 0)
    /\ [][NextLoad]_vars
    /\ WF_vars(load_model_async)
    /\ \A l \in Loads : WF_vars(load_pipeline(l)) /\ WF_vars(load_flag(l))
    /\ WF_vars(start_monitor)
    /\ WF_vars(wait_for_model)
    /\ WF_vars(wait_result)

\* calls that never overlap, with threads that are scheduled: a capture
\* thread or a driver callback that can take a step takes it in the end, a
\* call that has begun goes on, and a join returns, the thread ended or not
SpecSoloFair ==
    /\ Start(2 * MaxCalls, 0, MaxSessions, MaxFrames)
    /\ [][NextSolo]_vars
    /\ \A s \in Sessions :
         /\ WF_vars(record_audio_34(s) \/ record_audio_34_raise(s))
         /\ WF_vars(record_audio_42(s))
         /\ WF_vars(record_audio_44(s))
         /\ WF_vars(record_audio_49(s))
         /\ WF_vars(record_audio_51(s))
         /\ WF_vars(audio_callback_59(s))
    /\ \A t \in Callers :
         /\ WF_vars(rec_stop_76(t))
         /\ WF_vars(rec_stop_78(t))
         /\ WF_vars(rec_stop_81(t) \/ rec_stop_81_timeout(t))
         /\ WF_vars(rec_stop_84(t))
         /\ WF_vars(rec_stop_85(t))
         /\ WF_vars(stop_recording_84(t))
         /\ WF_vars(stop_and_transcribe_103(t))

\* the hotkeys, with recordings long enough to transcribe, and the tray's
\* Quit item
Quits(t) ==
    \/ quit(t)
    \/ quit_158(t)
    \/ stop_recording(t)
    \/ stop_recording_82(t)
    \/ stop_recording_84(t)

NextQuit ==
    \/ Loading
    \/ Captures
    \/ \E t \in Callers :
         \/ Starts(t)
         \/ RecStops(t)
         \/ stop_and_transcribe(t)
         \/ stop_and_send(t)
         \/ Transcribes(t)
         \/ Quits(t)

SpecQuit ==
    Start(MaxCalls, MaxCalls - 1, MaxSessions, AcceptFrames) /\ [][NextQuit]_vars

\* ------------------------------------------------------------------ claims
\* the step in which caller t runs the guards of start_recording
StartGuardStep(t) ==
    /\ pc[t] \in {"idle", "sr59"}
    /\ op'[t] = "start_recording"
    /\ pc'[t] \in {"ret", "sr71"}

\* a start_recording call of t that is refused at its guards leaves all of
\* the coordinator's, the recorder's and the capture threads' state as it was
\* and notifies nobody
Refused(t) ==
    /\ pc'[t] = "ret"
    /\ obs'[t].ui = <<>>
    /\ UNCHANGED <<coordVars, recVars, captureVars, queueVars>>

\* caller u is inside a stop-and-transcribe call: begun and not yet at its end
InStopAndTranscribe(u) ==
    op[u] = "stop_and_transcribe" /\ pc[u] \notin {"idle", "ret"}

\* the step with which a stop-and-transcribe call of t returns or unwinds
StopAndTranscribeEnds(t) ==
    /\ op[t] = "stop_and_transcribe"
    /\ pc[t] \notin {"idle", "ret"}
    /\ pc'[t] = "ret"

\* C1: whenever a stop-and-transcribe call returns or unwinds, on whichever
\* branch, the coordinator is Idle (is_recording is false) at that moment.
C1_IdleOnReturn ==
    [][\A t \in Callers : StopAndTranscribeEnds(t) => ~is_recording']_vars

\* both threads are inside their first call, and both calls are start_recording
TwoStartsOnly ==
    /\ \A t \in Callers : op[t] = "start_recording" /\ pc[t] # "idle"
    /\ calls_left[1] = MaxCalls - 1
    /\ calls_left[2] = MaxCalls - 2

\* C2: two start_recording calls made concurrently from Idle with the model
\* loaded create exactly one capture thread (and so one input stream); the
\* second call does nothing.
C2_OneSessionFromTwoStarts ==
    TwoStartsOnly =>
        /\ nsess <= 1
        /\ Cardinality({t \in Callers : obs[t].outcome = "started"}) <= 1

\* C3: at no time are two calls of the recognition pipeline in progress.
C3_OneTranscription ==
    Cardinality({t \in Callers : pc[t] = "mt102"}) <= 1

\* C4: a start_recording that arrives while another thread's
\* stop-and-transcribe call has begun and not yet returned is rejected: no
\* capture is started, no state changes, the tray is not notified.
C4_StartRejectedDuringTranscribe ==
    [][\A t \in Callers :
         (StartGuardStep(t) /\ \E u \in Callers \ {t} : InStopAndTranscribe(u))
             => Refused(t)]_vars

\* C5: a start_recording while the coordinator is already Recording is a
\* no-op: the state stays Recording, AudioRecorder.start_recording is not
\* called, the queue is not replaced, the tray is not notified, and the call
\* returns normally.
C5_StartWhileRecordingIsNoOp ==
    [][\A t \in Callers :
         (StartGuardStep(t) /\ is_recording)
             => /\ Refused(t)
                /\ is_recording'
                /\ obs'[t].outcome = "already_recording"]_vars

C5_Witness ==
    \E t \in Callers :
        /\ pc[t] = "ret"
        /\ op[t] = "start_recording"
        /\ obs[t].outcome = "already_recording"
        /\ is_recording

\* C6: while the model's loaded flag is false the coordinator is Idle, no
\* capture thread or queue has been created, and a start_recording is
\* refused: it calls nothing, changes nothing and notifies nobody.
C6_StartRefusedWhileNotLoaded ==
    [][~gate_loaded =>
         /\ ~is_recording /\ ~rec_is_recording /\ ~tray_is_recording
         /\ nsess = 0 /\ qgen = 0
         /\ \A t \in Callers :
              StartGuardStep(t)
                  => /\ Refused(t)
                     /\ obs'[t].outcome = "model_loading"]_vars

C6_Witness ==
    \E t \in Callers :
        /\ pc[t] = "ret"
        /\ op[t] = "start_recording"
        /\ obs[t].outcome = "model_loading"
        /\ ~gate_loaded

\* C7: a start_recording in Idle at a moment when the model's loaded flag is
\* true is accepted (and goes on to line 71, Recording).
C7_StartAcceptedWhenLoaded ==
    [][\A t \in Callers :
         (StartGuardStep(t) /\ gate_loaded /\ ~is_recording)
             => pc'[t] = "sr71"]_vars

\* C8: when the pipeline raises during a stop-and-transcribe call, the
\* failure is reported, the call returns normally with the coordinator Idle,
\* and neither inject nor the Enter key is invoked.
C8_EngineRaises ==
    [][\A t \in Callers :
         (pc[t] = "mt102" /\ pc'[t] = "ret" /\ obs'[t].engine = "raised")
             => /\ obs'[t].outcome = "failed"
                /\ obs'[t].inject = NoText
                /\ obs'[t].enter = 0
                /\ ~is_recording']_vars

\* C9: the audio AudioRecorder.stop_recording returns is exactly the frames
\* pushed on the queue of the recording period it stopped, in the order of
\* the pushes.
C9_AudioIsWhatWasPushed ==
    [][\A t \in Callers :
         (pc[t] = "rst84" /\ pc'[t] \in {"st84", "sat103"})
             => audio_data[t] = PushedOn(obs[t].stopped)]_vars

\* the frame was put on the queue of another period than its stream's
Foreign(f) == period[f[1]] # f[3]

\* C10: every start creates a new queue, and no frame of an earlier period's
\* stream is in the audio that the stop of a later period returns.
C10_NoFrameOfEarlierPeriod ==
    \A t \in Callers :
        pc[t] \in {"st84", "sat103"}
            => \A i \in 1..Len(audio_data[t]) : ~Foreign(audio_data[t][i])

\* C11: with 16000 samples per second, audio of 4800 samples or more passes
\* the minimum-length check and goes on to recognition; audio of fewer than
\* 4800 samples (4640, and any shorter clip) is rejected as too short.
C11_DurationBoundary ==
    \A t \in Callers :
        (op[t] = "stop_and_transcribe" /\ pc[t] \in {"mt102", "ret"}
                                       /\ audio_data[t] # NoAudio)
            => IF NumSamples(audio_data[t]) >= 4800
               THEN /\ obs[t].outcome # "too_short"
                    /\ gate_loaded => (pc[t] = "mt102" \/ obs[t].engine # "none")
               ELSE /\ pc[t] = "ret"
                    /\ obs[t].outcome = "too_short"
                    /\ obs[t].engine = "none"

C11_Witness ==
    \E t \in Callers :
        /\ pc[t] = "mt102"
        /\ NumSamples(audio_data[t]) = 4800

\* the step in which the pipeline call of t ends and lines 116-137 run
TranscribeEnds(t) == pc[t] = "mt102" /\ pc'[t] = "ret"

\* what the injector is to receive for `text` under the newline flag nl
Delivered(text, nl) ==
    IF nl THEN <<InjectCall(text), EnterCall>> ELSE <<InjectCall(text)>>

\* C12 as stated: whenever the engine returns a non-empty text, the injector
\* receives inject(text) exactly once, followed by one Enter press if the
\* newline flag is set and by none if it is clear.
C12_InjectNonEmptyText ==
    [][\A t \in Callers :
         (TranscribeEnds(t) /\ obs'[t].text \notin {NoText, <<>>})
             => obs'[t].calls = Delivered(obs'[t].text, add_newline[t])]_vars

\* C12: whenever the engine returns a text that is non-empty after stripping
\* white space, the injector receives inject(text) exactly once, followed by
\* one Enter press if the newline flag is set and by none if it is clear.
C12_InjectNonBlankText ==
    [][\A t \in Callers :
         (TranscribeEnds(t) /\ obs'[t].text # NoText /\ Strip(obs'[t].text) # <<>>)
             => obs'[t].calls = Delivered(obs'[t].text, add_newline[t])]_vars

C12_Witness ==
    \E t \in Callers :
        /\ pc[t] = "ret"
        /\ add_newline[t]
        /\ obs[t].text = <<" ", "h", "i", " ">>
        /\ obs[t].calls = <<InjectCall(obs[t].text), EnterCall>>

\* the stop-and-transcribe call of t has gone past its notification of line 99
PastNotify(t) == InStopAndTranscribe(t) /\ pc[t] \notin {"sat98", "sat99"}

\* C13: a stop-and-transcribe call notifies the tray 'idle' before it calls
\* AudioRecorder.stop_recording and before the recognition call, and the tray
\* never shows 'recording' while a recognition call is in progress.
C13_IdleShownWhileTranscribing ==
    \A t \in Callers :
        /\ PastNotify(t) => obs[t].ui = <<FALSE>>
        /\ pc[t] = "mt102" => ~tray_is_recording

\* the end of the end-to-end scenario: a stop-and-transcribe call with the
\* newline flag has had a text from the engine and has injected it
EndToEnd(t) ==
    /\ pc[t] = "ret"
    /\ op[t] = "stop_and_transcribe"
    /\ add_newline[t]
    /\ obs[t].outcome = "injected"

\* C14 as stated: in the end-to-end scenario the tray is notified 'idle'
\* (set_recording_state(False)) exactly twice during the call.
C14_IdleNotifiedTwice ==
    \A t \in Callers : EndToEnd(t) => obs[t].ui = <<FALSE, FALSE>>

\* C14: in the end-to-end scenario the tray is notified 'idle'
\* (set_recording_state(False)) exactly once during the call.
C14_IdleNotifiedOnce ==
    \A t \in Callers : EndToEnd(t) => obs[t].ui = <<FALSE>>

C14_Witness ==
    \E t \in Callers : EndToEnd(t) /\ obs[t].enter = 1 /\ ~tray_is_recording

\* C15: the model's loaded flag starts false and is never set back to false,
\* so that over any sequence of load_model_async calls it goes from false to
\* true once: it is true as soon as one load has run to its end, and stays.
C15_LoadedFlagMonotone ==
    /\ ~gate_loaded
    /\ [][gate_loaded => gate_loaded']_vars
    /\ []((\E l \in Loads : lpc[l] = "done") => gate_loaded)

C15_Witness ==
    /\ gate_loaded
    /\ \E l \in Loads : lpc[l] = "done"
    /\ \E l \in Loads : lpc[l] = "failed"

\* load thread l is running _load
LoadInProgress(l) == lpc[l] \in {"loading", "load70"}

\* C16: load_model_async starts a load thread only when the model is not
\* loaded and no earlier load is in progress; a call made otherwise starts
\* no thread and changes nothing.
C16_OneBackgroundLoad ==
    [][\A l \in Loads :
         (lpc[l] = "none" /\ lpc'[l] # "none")
             => /\ ~gate_loaded
                /\ \A k \in Loads : ~LoadInProgress(k)]_vars

OpenFailed(s) == cpc[s] \in {"finally49", "done"} /\ sstate[s] = "unopened"

\* no coordinator call is in progress
Quiet == \A t \in Callers : pc[t] = "idle"

\* C18: when the open of the latest capture thread has raised and the thread
\* has ended, the recorder's is_recording flag is false (so that a later
\* start is not turned away at recorder.py:64).
C18_OpenErrorClearsFlag ==
    (Quiet /\ \E s \in Sessions :
                 recording_thread = s /\ OpenFailed(s) /\ cpc[s] = "done")
        => ~rec_is_recording

\* C19: a frame that the driver delivers while the recorder's flag is false
\* (stop_recording has cleared it) is discarded: a callback goes on to its
\* put only if it found the flag true, and nothing but such a callback
\* makes the queue longer, however the callback and the stopping thread
\* interleave.
C19_FrameAfterFlagFlipDiscarded ==
    [][/\ \A x \in Sessions :
            (cbpc[x] = "idle" /\ cbpc'[x] = "put59") => rec_is_recording
       /\ Len(audio_queue') > Len(audio_queue)
            => \E x \in Sessions : cbpc[x] = "put59" /\ cbpc'[x] = "idle"]_vars

\* a stop has cleared the flag and waits in its join while a stream still
\* delivers frames: each of them is discarded
C19_Witness ==
    /\ ~rec_is_recording
    /\ \E t \in Callers : pc[t] = "rst81"
    /\ \E x \in Sessions : sstate[x] = "active" /\ cbpc[x] = "idle"

\* C20: AudioRecorder.stop_recording called while the flag is false returns
\* None and changes nothing; called while the flag is true it clears the
\* flag and returns None when no frame was queued in the period it stops and
\* otherwise the concatenation of that period's queued frames.
C20_StopReturns ==
    [][\A t \in Callers :
         /\ (pc[t] = "rst76" /\ pc'[t] # "rst76")
              => IF rec_is_recording
                 THEN pc'[t] = "rst78"
                 ELSE /\ pc'[t] = AfterStop(t)
                      /\ audio_data'[t] = NoAudio
                      /\ UNCHANGED <<recVars, captureVars, queueVars>>
         /\ (pc[t] = "rst78" /\ pc'[t] # "rst78") => ~rec_is_recording'
         /\ (pc[t] = "rst84" /\ pc'[t] = AfterStop(t))
              => /\ audio_data'[t] = PushedOn(obs[t].stopped)
                 /\ audio_data'[t] = NoAudio <=> PushedOn(obs[t].stopped) = <<>>]_vars

\* C21: AudioRecorder.start_recording called while the recorder's flag is
\* true returns at once: it creates no queue and no capture thread, and the
\* frames queued so far stay on the queue.
C21_RecorderStartNoOp ==
    [][\A t \in Callers :
         (pc[t] = "rsr64" /\ pc'[t] # "rsr64" /\ rec_is_recording)
             => /\ pc'[t] = "sr73"
                /\ UNCHANGED <<recVars, captureVars, queueVars>>]_vars

\* a start that found the flag set by another start has returned to line
\* 73 of main.py, and no capture thread is its own
C21_Witness ==
    \E t \in Callers : pc[t] = "sr73" /\ nsess = 0 /\ rec_is_recording

\* the step in which caller t runs the guard of stop_recording
StopGuardStep(t) ==
    /\ pc[t] \in {"idle", "st78"}
    /\ op'[t] = "stop_recording"
    /\ pc'[t] \in {"ret", "st82"}

\* C22: a stop_recording that finds the coordinator Recording sets it Idle
\* (line 82), calls AudioRecorder.stop_recording, notifies the tray 'idle'
\* once, when that call has returned, and at no point calls the recognition
\* pipeline or the text injector.
C22_StopOnly ==
    [][\A t \in Callers :
         /\ (StopGuardStep(t) /\ is_recording) => pc'[t] = "st82"
         /\ (pc[t] = "st82" /\ pc'[t] # "st82")
              => ~is_recording' /\ pc'[t] = "rst76"
         /\ (pc[t] = "st84" /\ pc'[t] # "st84")
              => /\ ~tray_is_recording'
                 /\ obs'[t].ui = <<FALSE>>
                 /\ pc'[t] = "ret"
         /\ op'[t] = "stop_recording"
              => /\ pc'[t] \notin {"sat98", "sat99", "sat103", "mt102"}
                 /\ pc'[t] # "ret" => obs'[t].ui = <<>>
                 /\ obs'[t].engine = "none"
                 /\ obs'[t].inject = NoText
                 /\ obs'[t].enter = 0
                 /\ obs'[t].calls = <<>>]_vars

C22_Witness ==
    \E t \in Callers :
        /\ pc[t] = "ret"
        /\ op[t] = "stop_recording"
        /\ obs[t].outcome = "stopped"
        /\ obs[t].ui = <<FALSE>>
        /\ ~is_recording

\* the step in which caller t runs the guard of _stop_and_transcribe_internal
TranscribeGuardStep(t) ==
    /\ pc[t] = "idle"
    /\ op'[t] = "stop_and_transcribe"
    /\ pc'[t] \in {"ret", "sat98"}

\* C23: a stop_recording or a stop-and-transcribe call that finds the
\* coordinator not Recording returns at its guard: the coordinator's, the
\* tray's and the recorder's state are as before, AudioRecorder.stop_recording,
\* the pipeline and the injector are not called, the tray is not notified,
\* and the call returns normally.
C23_StopWhenNotRecordingIsNoOp ==
    [][\A t \in Callers :
         ((StopGuardStep(t) \/ TranscribeGuardStep(t)) /\ ~is_recording)
             => /\ Refused(t)
                /\ ~is_recording'
                /\ obs'[t].outcome = "not_recording"
                /\ obs'[t].engine = "none"
                /\ obs'[t].calls = <<>>
                /\ audio_data'[t] = audio_data[t]]_vars

C23_Witness ==
    \E t \in Callers :
        /\ pc[t] = "ret"
        /\ op[t] = "stop_and_transcribe"
        /\ obs[t].outcome = "not_recording"
        /\ ~is_recording
        /\ rec_is_recording

\* the step in which the process ends
Exits == \E t \in Callers : pc[t] # "exited" /\ pc'[t] = "exited"

\* C24: the process does not exit while a stop-and-transcribe call is in
\* its recognition call or has yet to inject the text: a quit requested then
\* takes effect when that call has ended.
C24_QuitWaitsForTranscription ==
    [][Exits => \A u \in Callers : pc[u] # "mt102"]_vars

\* caller t has passed the guard of a stop (main.py:78 or 94) and has not
\* yet had its audio from AudioRecorder.stop_recording
Stopping(t) ==
    /\ op[t] \in {"stop_recording", "stop_and_transcribe"}
    /\ pc[t] \in {"st82", "sat98", "sat99", "rst76", "rst78", "rst81", "rst84",
                  "rst85", "rst85w"}

\* the frames caller t has taken off the queue so far
Taken(t) == IF pc[t] \in {"rst84", "rst85", "rst85w"} THEN audio_data[t] ELSE <<>>

\* C25: the guard of a stop and the clearing of is_recording that follows it
\* are one atomic step with respect to the other coordinator calls: of two
\* stops requested on one recording only one gets past its guard, calls
\* AudioRecorder.stop_recording and takes frames off the queue.
C25_OneStopPerRecording ==
    /\ Cardinality({t \in Callers : Stopping(t)}) <= 1
    /\ Cardinality({t \in Callers : Taken(t) # <<>>}) <= 1

\* C26: a stop-and-transcribe call goes on to the pipeline call only when
\* AudioRecorder.stop_recording returned audio, the audio lasts 0.3 s or more
\* and the model's loaded flag is true at that moment; when the audio is
\* None, too short, or the flag is false, the call ends without a pipeline
\* call and without a call on the injector.
C26_RecognitionPreconditions ==
    [][\A t \in Callers :
         /\ (pc[t] = "sat103" /\ pc'[t] # "sat103")
              => IF audio_data[t] # NoAudio /\ ~TooShort(audio_data[t]) /\ gate_loaded
                 THEN pc'[t] = "mt102"
                 ELSE /\ pc'[t] = "ret"
                      /\ obs'[t].outcome \in {"no_audio", "too_short", "failed"}
                      /\ obs'[t].engine = "none"
                      /\ obs'[t].inject = NoText
                      /\ obs'[t].calls = <<>>
         /\ (pc[t] # "mt102" /\ pc'[t] = "mt102") => pc[t] = "sat103"
         /\ obs'[t].engine # "none" => pc[t] = "mt102" \/ obs[t].engine # "none"]_vars

\* a call whose audio was shorter than 0.3 s has ended on the duration check
C26_Witness ==
    \E t \in Callers :
        /\ pc[t] = "ret"
        /\ op[t] = "stop_and_transcribe"
        /\ audio_data[t] # NoAudio
        /\ obs[t].outcome = "too_short"
        /\ obs[t].engine = "none"

\* C27: a stop-and-transcribe call calls inject if and only if the pipeline
\* returned a text that is non-empty after stripping white space, and then
\* with that text; when transcribe returned None, the empty string or white
\* space only, the call reports a failure and calls neither inject nor the
\* Enter key.
C27_InjectIffNonBlank ==
    [][\A t \in Callers :
         /\ TranscribeEnds(t)
              => IF obs'[t].text # NoText /\ Strip(obs'[t].text) # <<>>
                 THEN /\ obs'[t].calls # <<>>
                      /\ Head(obs'[t].calls) = InjectCall(obs'[t].text)
                      /\ obs'[t].inject = obs'[t].text
                      /\ obs'[t].outcome # "failed"
                 ELSE /\ obs'[t].calls = <<>>
                      /\ obs'[t].inject = NoText
                      /\ obs'[t].enter = 0
                      /\ obs'[t].outcome = "failed"
         /\ (obs'[t].calls # <<>> /\ obs[t].calls = <<>>) => TranscribeEnds(t)]_vars

\* the pipeline returned white space only, and nothing was injected
C27_Witness ==
    \E t \in Callers :
        /\ pc[t] = "ret"
        /\ obs[t].engine = "returned"
        /\ obs[t].text = <<" ">>
        /\ obs[t].calls = <<>>
        /\ obs[t].outcome = "failed"

\* C28: whenever no coordinator call is in progress, SpeechToTextApp's
\* is_recording, AudioRecorder's is_recording and the tray's is_recording
\* have one and the same value.
C28_FlagsAgree ==
    Quiet => /\ is_recording = rec_is_recording
             /\ is_recording = tray_is_recording

\* capture thread s has been started and has not ended
Alive(s) == cpc[s] \notin {"none", "done"}

\* the stream that capture thread s opened has not been closed
Open(x) == sstate[x] \in {"active", "stopped"}

\* C29: at any time at most one capture thread is alive and at most one
\* input stream is open, whatever calls of start_recording and
\* stop_recording were made, one after the other, and whether or not a join
\* of stop_recording gave up on a capture thread that was slow to open.
C29_OneCaptureThread ==
    /\ Cardinality({s \in Sessions : Alive(s)}) <= 1
    /\ Cardinality({x \in Sessions : Open(x)}) <= 1

\* C30: once a load thread has run to its end (the model's loaded flag is
\* true), SpeechToTextApp.model_loaded becomes true in the end, so that
\* start_recording is no longer refused, however the end of the load and the
\* return of the monitor's wait_for_model are ordered.
C30_GuardEventuallyOpens ==
    (\E l \in Loads : lpc[l] = "done") ~> model_loaded

\* C31: in a stop-and-transcribe call with the newline flag set, the Enter
\* key is pressed and the injection is reported as done only if inject(text)
\* returned True; after an inject that returned False no Enter press follows.
C31_EnterOnlyAfterInjection ==
    [][\A t \in Callers :
         (TranscribeEnds(t) /\ add_newline[t] /\ obs'[t].inject # NoText)
             => /\ obs'[t].enter > 0 => obs'[t].injected
                /\ obs'[t].outcome = "injected" => obs'[t].injected]_vars

\* capture thread s runs a statement of its finally block
Cleanup(s) ==
    \/ cpc[s] = "finally49" /\ cpc'[s] # "finally49"
    \/ cpc[s] = "close51" /\ cpc'[s] # "close51"

\* C32: the finally block of a capture thread calls stop_stream and close
\* only on the stream that this thread opened, and on no stream at all when
\* its open raised: never on a stream of another session, open or closed.
C32_CleanupOwnStream ==
    [][\A s \in Sessions :
         (Cleanup(s) /\ stream # NoStream)
             => stream = s /\ sstate[s] # "unopened"]_vars

\* C33: the audio AudioRecorder.stop_recording returns is a whole number of
\* buffers of 1024 samples, so that the duration check lets it through
\* exactly when it holds 5 frames or more (5120 samples) and turns it away
\* as too short when it holds 1 to 4 frames.
C33_WholeFrames ==
    [][\A t \in Callers :
         /\ pc[t] \in {"st84", "sat103", "mt102"}
              => NumSamples(audio_data[t]) = 1024 * Len(audio_data[t])
         /\ (pc[t] = "sat103" /\ pc'[t] # "sat103" /\ audio_data[t] # NoAudio)
              => IF Len(audio_data[t]) >= 5
                 THEN pc'[t] = "mt102"
                 ELSE pc'[t] = "ret" /\ obs'[t].outcome = "too_short"]_vars

\* a recording of exactly five frames is in its pipeline call
C33_Witness ==
    \E t \in Callers : pc[t] = "mt102" /\ Len(audio_data[t]) = 5

\* caller t is inside AudioRecorder.stop_recording
InRecStop(t) == pc[t] \in {"rst76", "rst78", "rst81", "rst84", "rst85", "rst85w"}

\* C34: when a stop_recording has cleared the recorder's flag and no later
\* start sets it again, then in the end every capture thread has left its
\* loop and ended, no stream is left open, and the stop_recording itself has
\* returned, whether its join saw the thread end or gave up.
C34_CaptureEnds ==
    <>[](~rec_is_recording /\ nsess > 0)
        => <>[](/\ \A s \in Sessions : ~Alive(s) /\ ~Open(s)
                /\ \A t \in Callers : ~InRecStop(t))

\* C35: whenever SpeechToTextModel.model_loaded is true, self.pipeline has
\* been assigned, so that a transcribe that got past the test of the flag
\* calls a pipeline that exists, however the load threads interleave.
C35_LoadedImpliesPipeline ==
    /\ gate_loaded => pipeline
    /\ \A t \in Callers : pc[t] = "mt102" => pipeline

\* the flag is set while a second load thread is still building its pipeline
C35_Witness ==
    /\ gate_loaded
    /\ pipeline
    /\ \E l \in Loads : lpc[l] = "loading"

====
